---- MODULE Spec2Model ----
(***************************************************************************)
(* A model of three parts of the pyspur backend:                           *)
(*   - the evaluation harness, backend/app/evals/evaluator.py              *)
(*     (evaluate_model_on_dataset, evaluate_on_dataset, load_yaml_config), *)
(*   - the LLM utilities, backend/node_types/llm.py                        *)
(*     (async_retry, completion_with_backoff, get_embedding,               *)
(*      compute_embeddings, generate_texts_in_parallel),                   *)
(*   - the node type endpoint, backend/app/api/node_management.py          *)
(*     (get_node_types).                                                   *)
(* Each part has its own specification (SpecEval, SpecYaml, SpecEmbed,     *)
(* SpecRetry, SpecGen, SpecNodes); the variables of the other parts are    *)
(* held constant.                                                          *)
(*                                                                         *)
(* Strings are sequences of tokens; " " and "\n" are the whitespace        *)
(* tokens.  Python's None is the string NONE, a column a dataset does not  *)
(* have is ABSENT, a falsy mapping (None or {}) is the empty function.     *)
(***************************************************************************)
EXTENDS Integers, Sequences, FiniteSets, TLC

VARIABLES
    \* ---- evaluator.py: evaluate_model_on_dataset / evaluate_on_dataset
    pc,               \* position of the coroutine evaluate_model_on_dataset
    task_config,      \* the task configuration (dataset_subsets, mapping)
    batch_size,       \* parameter batch_size
    layout,           \* which of the columns subject / Subject the dataset has
    heap,             \* the dict objects category_correct / category_total
    subset_i,         \* index of the subset being evaluated (list mode)
    dataset,          \* the dataset evaluate_on_dataset is running on
    subject,          \* local variable subject of evaluate_on_dataset
    cc_ref,           \* local category_correct: a reference into heap
    ct_ref,           \* local category_total: a reference into heap
    all_responses,    \* local all_responses
    short_responses,  \* local short_responses
    total,            \* local total
    correct,          \* local correct
    task_id,          \* local task_id
    batch_start,      \* number of examples the batch iterator has passed
    batch,            \* transformed_batch
    full_prompts,     \* full_prompts
    call_state,       \* state of the call_model coroutine of each example
    call_result,      \* result of the call_model coroutine of each example
    done_order,       \* the batch's examples in the order their calls completed
    responses,        \* the list asyncio.gather returned
    idx,              \* loop index of the scoring loop
    metrics,          \* the value evaluate_on_dataset returned
    subset_metrics,   \* subset_metrics of evaluate_model_on_dataset
    total_correct,    \* total_correct of evaluate_model_on_dataset
    total_samples,    \* total_samples of evaluate_model_on_dataset
    results,          \* the value evaluate_model_on_dataset returned
    error,            \* the exception that ended the run, or NONE
    \* ---- evaluator.py: load_yaml_config
    yaml_pc,          \* "start" before the call, "done" after it
    yaml_files,       \* the YAML documents on disk, by path
    yaml_result,      \* what load_yaml_config returned or raised
    \* ---- llm.py: the wrapper async_retry builds around a function
    retry_pc,         \* position of the coroutine wrapped_f
    retry_fn,         \* the wrapped function that is called
    attempt_number,   \* the retry state's attempt_number
    calls,            \* how often the wrapped function has been invoked
    logged,           \* how many failures the wrapped function has logged
    retry_result,     \* what wrapped_f returned or raised
    \* ---- llm.py: compute_embeddings
    emb_pc,           \* position of the coroutine compute_embeddings
    docs,             \* parameter docs
    text_extractor,   \* whether a text_extractor is given
    embedding_dimensions, \* parameter embedding_dimensions
    emb_i,            \* how many texts the loop has passed
    api_failures,     \* per document: the failed API calls before a success
    texts,            \* local texts
    embeddings,       \* local embeddings
    emb_result,       \* the array compute_embeddings returned
    \* ---- llm.py: generate_texts_in_parallel
    gen_pc,           \* position of the coroutine generate_texts_in_parallel
    list_of_messages, \* parameter list_of_messages
    semaphore_value,  \* parameter semaphore_value
    semaphore,        \* the value of the asyncio.Semaphore
    fetch_pc,         \* position of each fetch coroutine
    job_result,       \* what each executor job returned
    fetch_result,     \* what each fetch coroutine returned
    api_requests,     \* the requests client.chat.completions.create received
    gen_result,       \* the list generate_texts_in_parallel returned
    \* ---- node_management.py: get_node_types
    node_pc,          \* position of the coroutine get_node_types
    node_groups,      \* what NodeFactory.get_all_node_types() returned
    group_i,          \* how many groups the outer loop has passed
    type_i,           \* how many node types the inner loop has passed
    node_schemas,     \* local node_schemas
    node_response     \* local response of get_node_types

evalVars == <<pc, task_config, batch_size, layout, heap, subset_i, dataset,
              subject, cc_ref, ct_ref, all_responses, short_responses, total,
              correct, task_id, batch_start, batch, full_prompts, call_state,
              call_result, done_order, responses, idx, metrics,
              subset_metrics, total_correct, total_samples, results, error>>

yamlVars == <<yaml_pc, yaml_files, yaml_result>>

retryVars == <<retry_pc, retry_fn, attempt_number, calls, logged, retry_result>>

embVars == <<emb_pc, docs, text_extractor, embedding_dimensions, emb_i,
             api_failures, texts, embeddings, emb_result>>

genVars == <<gen_pc, list_of_messages, semaphore_value, semaphore, fetch_pc,
             job_result, fetch_result, api_requests, gen_result>>

nodeVars == <<node_pc, node_groups, group_i, type_i, node_schemas, node_response>>

vars == <<evalVars, yamlVars, retryVars, embVars, genVars, nodeVars>>

----------------------------------------------------------------------------
(* Bounds of the model *)

\* longest dataset a subset can hold
MaxLen == 3
\* largest batch size
MaxBatch == 2

----------------------------------------------------------------------------
(* Values *)

NONE == "None"
ABSENT == "absent"

Whitespace == {" ", "\n"}

EmptyDict == [k \in {} |-> 0]

Min(a, b) == IF a <= b THEN a ELSE b

RECURSIVE Gcd(_, _)
Gcd(a, b) == IF b = 0 THEN a ELSE Gcd(b, a % b)

\* a quotient n / d of two naturals, d > 0, as a fraction in lowest terms
Frac(n, d) == [num |-> n \div Gcd(n, d), den |-> d \div Gcd(n, d)]

\* the number 0 (the int Python's conditional expressions return)
Zero == [num |-> 0, den |-> 1]

RECURSIVE LStrip(_)
LStrip(s) == IF s # <<>> /\ Head(s) \in Whitespace THEN LStrip(Tail(s)) ELSE s

RECURSIVE RStrip(_)
RStrip(s) ==
    IF s # <<>> /\ s[Len(s)] \in Whitespace
    THEN RStrip(SubSeq(s, 1, Len(s) - 1))
    ELSE s

\* str.strip()
Strip(s) == RStrip(LStrip(s))

RECURSIVE SumOver(_, _)
SumOver(f, S) ==
    IF S = {} THEN 0
    ELSE LET x == CHOOSE y \in S : TRUE IN f[x] + SumOver(f, S \ {x})

----------------------------------------------------------------------------
(* evaluator.py: the inputs of a run *)

\* the task configurations' dataset_subsets: a list of subset names, one
\* subset name (is_list FALSE, one name) or None (is_list FALSE, no name)
DatasetSubsetsChoices ==
    { [is_list |-> TRUE, names |-> <<>>],
      [is_list |-> TRUE, names |-> <<"s1">>],
      [is_list |-> TRUE, names |-> <<"s1", "s2">>],
      [is_list |-> TRUE, names |-> <<"s2", "s1">>],
      [is_list |-> FALSE, names |-> <<"s1">>],
      [is_list |-> FALSE, names |-> <<>>] }

\* subject_category_mapping: absent, one with a subject mapped to "other",
\* one in which no subject maps to "other"
MappingWithOther == [s \in {"s1", "s2"} |-> IF s = "s1" THEN "STEM" ELSE "other"]
MappingWithoutOther == [s \in {"s1", "s2"} |-> IF s = "s1" THEN "STEM" ELSE "humanities"]
Mappings == {EmptyDict, MappingWithOther, MappingWithoutOther}

\* the columns a dataset has: none of subject / Subject, one, or both
Layouts == {"none", "lower", "upper", "both"}

\* the subjects an example can carry: a mapped one and an unmapped one
SubjectValues == {"s1", "s3"}

\* the values <<subject, Subject>> of an example under each layout; under
\* "both" the subject column is null or holds the unmapped subject
SubjectFields(l) ==
    CASE l = "lower" -> {<<v, ABSENT>> : v \in SubjectValues}
      [] l = "upper" -> {<<ABSENT, v>> : v \in SubjectValues}
      [] l = "both" -> {<<NONE, "s1">>, <<"s3", "s1">>}
      [] OTHER -> {<<ABSENT, ABSENT>>}

\* the text of the k-th question of a dataset: k tokens
QuestionText(k) == [i \in 1..k |-> "x"]

\* the datasets load_dataset_by_name can return: up to MaxLen examples with
\* the columns question and answer and the subject columns of the layout
Datasets(l) ==
    UNION { { [k \in 1..n |-> [question |-> QuestionText(k),
                               answer |-> <<"7", "\n">>,
                               subject |-> f[k][1],
                               Subject |-> f[k][2]]] :
              f \in [1..n -> SubjectFields(l)] } :
            n \in 0..MaxLen }

\* the texts the model can answer with
Texts == { <<" ", "7">>, <<"8">> }

\* Python truthiness of a dict or None
Truthy(d) == DOMAIN d # {}

\* Python truthiness of a string or None
Falsy(v) == v = NONE \/ v = ""

----------------------------------------------------------------------------
(* evaluator.py: helpers *)

\* jinja2 Template("{{ field }}").render(**problem)
RenderQuestion(problem) == problem.question
RenderTarget(problem) == problem.answer

\* the task's preamble and prompt
TaskPreamble == <<>>
TaskPrompt == <<"Q:">>

generate_input_prompt(problem) ==
    Strip(TaskPreamble \o <<"\n", "\n">> \o TaskPrompt \o <<"\n">>
          \o RenderQuestion(problem))

\* extract_answer with the default method
extract_answer(response_text) == Strip(response_text)

get_ground_truth_answer(problem) == Strip(RenderTarget(problem))

\* evaluate_answer with the default method
evaluate_answer(predicted_answer, ground_truth_answer) ==
    predicted_answer = ground_truth_answer

\* {category: 0 for category in set(subject_category_mapping.values())}
ZeroCounters(mapping) == [c \in {mapping[s] : s \in DOMAIN mapping} |-> 0]

\* {category: correct / total if total > 0 else 0 for category in correct}
CategoryAccuracy(cc, ct) ==
    [c \in DOMAIN cc |-> IF ct[c] > 0 THEN Frac(cc[c], ct[c]) ELSE Zero]

\* a task id that restarts with every batch
NextTaskIdPerBatch(t) == IF idx = Len(batch) THEN 0 ELSE t + 1

\* task_id += 1
NextTaskId(t) == t + 1

\* an await that resumes with the first call to complete
GatherFirstCompleted(cs) == \E i \in DOMAIN cs : cs[i] = "returned"

\* asyncio.gather resumes its awaiter when every awaitable has completed
GatherComplete(cs) == \A i \in DOMAIN cs : cs[i] = "returned"

\* the responses read from the far end of the list
ResponseForReversed(rs, i) == rs[Len(rs) + 1 - i]

\* response_text = responses[idx]
ResponseFor(rs, i) == rs[i]

\* the subject an example is categorised by
SubjectOf(problem, subj) ==
    LET s1 == IF problem.subject # ABSENT THEN problem.subject ELSE subj
    IN IF Falsy(s1) /\ problem.Subject # ABSENT THEN problem.Subject ELSE s1

\* subject_category_mapping.get(subject, "other")
CategoryOf(mapping, subj) ==
    IF subj \in DOMAIN mapping THEN mapping[subj] ELSE "other"

\* the combined correct count over the last subset's sample count
OverallAccuracyLastSubset(c, n) ==
    IF n > 0 THEN Frac(c, metrics.total_samples) ELSE Zero

\* overall_accuracy = total_correct / total_samples if total_samples > 0 else 0
OverallAccuracy(c, n) == IF n > 0 THEN Frac(c, n) ELSE Zero

NoHeap == [o \in {"outer_cc", "outer_ct", "inner_cc", "inner_ct"} |-> EmptyDict]

Mapping == task_config.subject_category_mapping
IsList == task_config.dataset_subsets.is_list
Names == task_config.dataset_subsets.names

----------------------------------------------------------------------------
(* evaluator.py: evaluate_model_on_dataset and evaluate_on_dataset *)

\* the other parts at rest
YamlIdle == yaml_pc = "idle" /\ yaml_files = <<>> /\ yaml_result = <<>>

RetryIdle ==
    /\ retry_pc = "idle"
    /\ retry_fn = NONE
    /\ attempt_number = 0
    /\ calls = 0
    /\ logged = 0
    /\ retry_result = <<>>

EmbIdle ==
    /\ emb_pc = "idle"
    /\ docs = <<>>
    /\ text_extractor = FALSE
    /\ embedding_dimensions = 0
    /\ emb_i = 0
    /\ api_failures = <<>>
    /\ texts = <<>>
    /\ embeddings = <<>>
    /\ emb_result = <<>>

GenIdle ==
    /\ gen_pc = "idle"
    /\ list_of_messages = <<>>
    /\ semaphore_value = 0
    /\ semaphore = 0
    /\ fetch_pc = <<>>
    /\ job_result = <<>>
    /\ fetch_result = <<>>
    /\ api_requests = {}
    /\ gen_result = <<>>

NodeIdle ==
    /\ node_pc = "idle"
    /\ node_groups = <<>>
    /\ group_i = 0
    /\ type_i = 0
    /\ node_schemas = <<>>
    /\ node_response = <<>>

EvalIdle ==
    /\ pc = "idle"
    /\ task_config = <<>>
    /\ batch_size = 0
    /\ layout = "none"
    /\ heap = <<>>
    /\ subset_i = 0
    /\ dataset = <<>>
    /\ subject = NONE
    /\ cc_ref = NONE
    /\ ct_ref = NONE
    /\ all_responses = <<>>
    /\ short_responses = <<>>
    /\ total = 0
    /\ correct = 0
    /\ task_id = 0
    /\ batch_start = 0
    /\ batch = <<>>
    /\ full_prompts = <<>>
    /\ call_state = <<>>
    /\ call_result = <<>>
    /\ done_order = <<>>
    /\ responses = <<>>
    /\ idx = 0
    /\ metrics = <<>>
    /\ subset_metrics = <<>>
    /\ total_correct = 0
    /\ total_samples = 0
    /\ results = <<>>
    /\ error = NONE

NoCalls == <<>>

\* the result of a call that has not returned
NoResponse == [prompt |-> <<>>, text |-> <<>>]

\* the number of examples before the current batch
BatchOffset == batch_start - Len(batch)

\* the states of the calls handed to asyncio.gather, in argument order
BatchCalls == [i \in 1..Len(batch) |-> call_state[BatchOffset + i]]

\* the state before evaluate_model_on_dataset is called with a task
\* configuration whose mapping is one of ms, on a dataset hub whose datasets
\* have one of the column layouts ls
InitWith(ms, ls) ==
    /\ pc = "start"
    /\ task_config \in [dataset_subsets : DatasetSubsetsChoices,
                        subject_category_mapping : ms]
    /\ batch_size \in 1..MaxBatch
    /\ layout \in ls
    /\ heap = NoHeap
    /\ subset_i = 1
    /\ dataset = <<>>
    /\ subject = NONE
    /\ cc_ref = NONE
    /\ ct_ref = NONE
    /\ all_responses = EmptyDict
    /\ short_responses = EmptyDict
    /\ total = 0
    /\ correct = 0
    /\ task_id = 0
    /\ batch_start = 0
    /\ batch = <<>>
    /\ full_prompts = <<>>
    /\ call_state = NoCalls
    /\ call_result = NoCalls
    /\ done_order = <<>>
    /\ responses = <<>>
    /\ idx = 0
    /\ metrics = EmptyDict
    /\ subset_metrics = EmptyDict
    /\ total_correct = 0
    /\ total_samples = 0
    /\ results = EmptyDict
    /\ error = NONE
    /\ YamlIdle
    /\ RetryIdle
    /\ EmbIdle
    /\ GenIdle
    /\ NodeIdle

\* runs on datasets without subject columns, with and without a mapping
InitEval == InitWith(Mappings, {"none"})

\* runs with a mapping on datasets with subject columns
InitCategories == InitWith(Mappings \ {EmptyDict}, Layouts \ {"none"})

\* evaluate_model_on_dataset up to the branch on dataset_subsets
Start ==
    /\ pc = "start"
    /\ heap' = IF Truthy(Mapping)
               THEN [NoHeap EXCEPT !["outer_cc"] = ZeroCounters(Mapping),
                                   !["outer_ct"] = ZeroCounters(Mapping)]
               ELSE NoHeap
    /\ total_correct' = 0
    /\ total_samples' = 0
    /\ subset_metrics' = EmptyDict
    /\ subset_i' = 1
    /\ pc' = IF IsList THEN "subsets" ELSE "single"
    /\ UNCHANGED <<yamlVars, retryVars, embVars, genVars, nodeVars>>
    /\ UNCHANGED <<task_config, batch_size, layout, dataset, subject, cc_ref,
                   ct_ref, all_responses, short_responses, total, correct,
                   task_id, batch_start, batch, full_prompts, call_state,
                   call_result, done_order, responses, idx, metrics, results,
                   error>>

\* the call of evaluate_on_dataset, up to its batch loop
EnterEvaluateOnDataset(ds, subj, cc, ct) ==
    /\ dataset' = ds
    /\ subject' = subj
    /\ all_responses' = EmptyDict
    /\ short_responses' = EmptyDict
    /\ total' = Len(ds)
    /\ correct' = 0
    /\ task_id' = 0
    /\ IF Truthy(Mapping) /\ cc = NONE /\ ct = NONE
       THEN /\ cc_ref' = "inner_cc"
            /\ ct_ref' = "inner_ct"
            /\ heap' = [heap EXCEPT !["inner_cc"] = ZeroCounters(Mapping),
                                    !["inner_ct"] = ZeroCounters(Mapping)]
       ELSE /\ cc_ref' = cc
            /\ ct_ref' = ct
            /\ heap' = heap
    /\ batch_start' = 0
    /\ batch' = <<>>
    /\ full_prompts' = <<>>
    /\ call_state' = [k \in 1..Len(ds) |-> "unissued"]
    /\ call_result' = [k \in 1..Len(ds) |-> NoResponse]
    /\ done_order' = <<>>
    /\ responses' = <<>>
    /\ idx' = 0
    /\ pc' = "batches"

\* one iteration of the loop over dataset_subsets, up to the await
LoadSubset ==
    /\ pc = "subsets"
    /\ subset_i <= Len(Names)
    /\ \E ds \in Datasets(layout) :
         EnterEvaluateOnDataset(ds, Names[subset_i],
                                IF Truthy(Mapping) THEN "outer_cc" ELSE NONE,
                                IF Truthy(Mapping) THEN "outer_ct" ELSE NONE)
    /\ UNCHANGED <<yamlVars, retryVars, embVars, genVars, nodeVars>>
    /\ UNCHANGED <<task_config, batch_size, layout, subset_i, metrics,
                   subset_metrics, total_correct, total_samples, results, error>>

\* the single-dataset branch, up to the await
LoadSingle ==
    /\ pc = "single"
    /\ \E ds \in Datasets(layout) :
         EnterEvaluateOnDataset(ds, IF Names = <<>> THEN NONE ELSE Names[1],
                                NONE, NONE)
    /\ UNCHANGED <<yamlVars, retryVars, embVars, genVars, nodeVars>>
    /\ UNCHANGED <<task_config, batch_size, layout, subset_i, metrics,
                   subset_metrics, total_correct, total_samples, results, error>>

\* the next batch of the iterator: its prompts are built, its calls issued
IssueBatch ==
    /\ pc = "batches"
    /\ batch_start < total
    /\ LET b == SubSeq(dataset, batch_start + 1,
                       Min(batch_start + batch_size, total))
       IN /\ batch' = b
          /\ full_prompts' = [i \in 1..Len(b) |-> generate_input_prompt(b[i])]
          /\ call_state' = [k \in DOMAIN call_state |->
                              IF k \in (batch_start + 1)..(batch_start + Len(b))
                              THEN "pending"
                              ELSE call_state[k]]
          /\ batch_start' = batch_start + Len(b)
    /\ done_order' = <<>>
    /\ pc' = "await"
    /\ UNCHANGED <<yamlVars, retryVars, embVars, genVars, nodeVars>>
    /\ UNCHANGED <<task_config, batch_size, layout, heap, subset_i, dataset,
                   subject, cc_ref, ct_ref, all_responses, short_responses,
                   total, correct, task_id, call_result, responses, idx,
                   metrics, subset_metrics, total_correct, total_samples,
                   results, error>>

\* one call_model coroutine of the batch completes; its response answers the
\* prompt the call was given
ModelReturns ==
    /\ pc = "await"
    /\ \E k \in DOMAIN call_state, t \in Texts :
         /\ call_state[k] = "pending"
         /\ call_state' = [call_state EXCEPT ![k] = "returned"]
         /\ call_result' = [call_result EXCEPT
                              ![k] = [prompt |-> full_prompts[k - BatchOffset],
                                      text |-> t]]
         /\ done_order' = Append(done_order, k)
    /\ UNCHANGED <<yamlVars, retryVars, embVars, genVars, nodeVars>>
    /\ UNCHANGED <<pc, task_config, batch_size, layout, heap, subset_i, dataset,
                   subject, cc_ref, ct_ref, all_responses, short_responses,
                   total, correct, task_id, batch_start, batch, full_prompts,
                   responses, idx, metrics, subset_metrics, total_correct,
                   total_samples, results, error>>

\* asyncio.gather returns the results in the order of its arguments
GatherReturns ==
    /\ pc = "await"
    /\ GatherComplete(BatchCalls)
    /\ responses' = [i \in 1..Len(batch) |-> call_result[BatchOffset + i]]
    /\ idx' = 1
    /\ pc' = "score"
    /\ UNCHANGED <<yamlVars, retryVars, embVars, genVars, nodeVars>>
    /\ UNCHANGED <<task_config, batch_size, layout, heap, subset_i, dataset,
                   subject, cc_ref, ct_ref, all_responses, short_responses,
                   total, correct, task_id, batch_start, batch, full_prompts,
                   call_state, call_result, done_order, metrics,
                   subset_metrics, total_correct, total_samples, results, error>>

\* a counter that goes up with every example
CountCorrectAlways(n, is_correct) == n + 1

\* lines 336-337: if is_correct: category_correct[category] += 1
CountCorrect(n, is_correct) == IF is_correct THEN n + 1 ELSE n

\* one iteration of the scoring loop; with the batch's last example the
\* batch's calls are forgotten
ScoreExample ==
    /\ pc = "score"
    /\ idx <= Len(batch)
    /\ LET problem == batch[idx]
           response == ResponseFor(responses, idx)
           predicted_answer == extract_answer(response.text)
           ground_truth_answer == get_ground_truth_answer(problem)
           is_correct == evaluate_answer(predicted_answer, ground_truth_answer)
           subj == SubjectOf(problem, subject)
           category == CategoryOf(Mapping, subj)
           raises == Truthy(Mapping) /\ category \notin DOMAIN heap[ct_ref]
       IN /\ all_responses' = (task_id :> response) @@ all_responses
          /\ short_responses' = (task_id :> predicted_answer) @@ short_responses
          /\ correct' = correct + (IF is_correct THEN 1 ELSE 0)
          /\ subject' = IF Truthy(Mapping) THEN subj ELSE subject
          /\ IF raises
             THEN \* category_total[category] += 1 raises KeyError
                  /\ error' = "KeyError"
                  /\ pc' = "raised"
                  /\ UNCHANGED <<heap, task_id, idx, done_order>>
             ELSE /\ heap' = IF Truthy(Mapping)
                             THEN [heap EXCEPT
                                     ![ct_ref][category] = @ + 1,
                                     ![cc_ref][category] =
                                         CountCorrect(@, is_correct)]
                             ELSE heap
                  /\ task_id' = NextTaskId(task_id)
                  /\ idx' = idx + 1
                  /\ pc' = IF idx = Len(batch) THEN "batches" ELSE "score"
                  /\ done_order' = IF idx = Len(batch) THEN <<>> ELSE done_order
                  /\ error' = error
    /\ UNCHANGED <<yamlVars, retryVars, embVars, genVars, nodeVars>>
    /\ UNCHANGED <<task_config, batch_size, layout, subset_i, dataset, cc_ref,
                   ct_ref, total, batch_start, batch, full_prompts, call_state,
                   call_result, responses, metrics, subset_metrics,
                   total_correct, total_samples, results>>

\* the end of evaluate_on_dataset: the accuracy and the metrics it returns
Finish ==
    /\ pc = "batches"
    /\ batch_start >= total
    /\ IF total = 0
       THEN \* accuracy = correct / total raises ZeroDivisionError
            /\ error' = "ZeroDivisionError"
            /\ pc' = "raised"
            /\ metrics' = metrics
       ELSE /\ metrics' =
                 LET base == [total_samples |-> total,
                              correct_predictions |-> correct,
                              accuracy |-> Frac(correct, total),
                              all_responses |-> all_responses,
                              short_responses |-> short_responses]
                 IN IF Truthy(Mapping)
                    THEN base @@
                         [category_correct |-> cc_ref,
                          category_total |-> ct_ref,
                          category_accuracy |->
                              CategoryAccuracy(heap[cc_ref], heap[ct_ref])]
                    ELSE base
            /\ pc' = "returned"
            /\ error' = error
    /\ UNCHANGED <<yamlVars, retryVars, embVars, genVars, nodeVars>>
    /\ UNCHANGED <<task_config, batch_size, layout, heap, subset_i, dataset,
                   subject, cc_ref, ct_ref, all_responses, short_responses,
                   total, correct, task_id, batch_start, batch, full_prompts,
                   call_state, call_result, done_order, responses, idx,
                   subset_metrics, total_correct, total_samples, results>>

\* subset_metrics[subset] = metrics and the two running sums
AddSubset(sm, name, m) == (name :> m) @@ sm

\* the rest of one iteration of the loop over dataset_subsets
StoreSubsetMetrics ==
    /\ pc = "returned"
    /\ IsList
    /\ subset_metrics' = AddSubset(subset_metrics, Names[subset_i], metrics)
    /\ total_correct' = total_correct + metrics.correct_predictions
    /\ total_samples' = total_samples + metrics.total_samples
    /\ subset_i' = subset_i + 1
    /\ pc' = "subsets"
    /\ UNCHANGED <<yamlVars, retryVars, embVars, genVars, nodeVars>>
    /\ UNCHANGED <<task_config, batch_size, layout, heap, dataset, subject,
                   cc_ref, ct_ref, all_responses, short_responses, total,
                   correct, task_id, batch_start, batch, full_prompts,
                   call_state, call_result, done_order, responses, idx,
                   metrics, results, error>>

\* after the loop over dataset_subsets: the combined results
Aggregate ==
    /\ pc = "subsets"
    /\ subset_i > Len(Names)
    /\ results' =
         LET base == [total_samples |-> total_samples,
                      correct_predictions |-> total_correct,
                      accuracy |-> OverallAccuracy(total_correct, total_samples),
                      subset_metrics |-> subset_metrics]
         IN IF Truthy(Mapping)
            THEN base @@ [category_accuracy |->
                            CategoryAccuracy(heap["outer_cc"], heap["outer_ct"])]
            ELSE base
    /\ pc' = "done"
    /\ UNCHANGED <<yamlVars, retryVars, embVars, genVars, nodeVars>>
    /\ UNCHANGED <<task_config, batch_size, layout, heap, subset_i, dataset,
                   subject, cc_ref, ct_ref, all_responses, short_responses,
                   total, correct, task_id, batch_start, batch, full_prompts,
                   call_state, call_result, done_order, responses, idx,
                   metrics, subset_metrics, total_correct, total_samples, error>>

\* the rest of the single-dataset branch
ReturnSingle ==
    /\ pc = "returned"
    /\ ~IsList
    /\ results' = IF Truthy(Mapping)
                  THEN [metrics EXCEPT !["category_accuracy"] =
                                           metrics.category_accuracy]
                  ELSE metrics
    /\ pc' = "done"
    /\ UNCHANGED <<yamlVars, retryVars, embVars, genVars, nodeVars>>
    /\ UNCHANGED <<task_config, batch_size, layout, heap, subset_i, dataset,
                   subject, cc_ref, ct_ref, all_responses, short_responses,
                   total, correct, task_id, batch_start, batch, full_prompts,
                   call_state, call_result, done_order, responses, idx,
                   metrics, subset_metrics, total_correct, total_samples, error>>

NextEval ==
    \/ Start
    \/ LoadSubset
    \/ LoadSingle
    \/ IssueBatch
    \/ ModelReturns
    \/ GatherReturns
    \/ ScoreExample
    \/ Finish
    \/ StoreSubsetMetrics
    \/ Aggregate
    \/ ReturnSingle

SpecEval == InitEval /\ [][NextEval]_vars

SpecCategories == InitCategories /\ [][NextEval]_vars

----------------------------------------------------------------------------
(* Properties of evaluate_on_dataset and evaluate_model_on_dataset *)

\* the examples of the dataset whose response has been recorded
Scored(k) == (k - 1) \in DOMAIN all_responses

\* the batch an example belongs to
BatchOf(k) == (k - 1) \div batch_size

InEvaluateOnDataset == pc \in {"batches", "await", "score", "returned"}

\* C1: task ids start at 0, grow by one per example and are not reset at a
\* batch boundary: while evaluate_on_dataset runs the keys of all_responses
\* and short_responses are 0..task_id-1, between two batches task_id is the
\* number of examples the iterator has passed, and at return both key sets
\* are 0..N-1 with key i holding the response of the call made for the i-th
\* example and the answer extracted from it.
C1_TaskIds ==
    /\ InEvaluateOnDataset =>
         /\ DOMAIN all_responses = 0..(task_id - 1)
         /\ DOMAIN short_responses = 0..(task_id - 1)
    /\ pc = "batches" => task_id = batch_start
    /\ pc = "returned" =>
         LET N == Len(dataset)
         IN /\ N >= 1
            /\ DOMAIN metrics.all_responses = 0..(N - 1)
            /\ DOMAIN metrics.short_responses = 0..(N - 1)
            /\ \A i \in 0..(N - 1) :
                 /\ metrics.all_responses[i] = call_result[i + 1]
                 /\ metrics.short_responses[i] =
                        extract_answer(call_result[i + 1].text)

\* C1 witness: a dataset of three examples evaluated in batches of two has
\* returned with the keys 0, 1, 2
C1_Witness ==
    /\ pc = "returned"
    /\ Len(dataset) = 3
    /\ batch_size = 2
    /\ DOMAIN metrics.all_responses = {0, 1, 2}

\* C2: batches do not overlap: when a call of an example has been issued,
\* every call of every earlier batch has returned and its example has been
\* scored; when an example has been scored, every call of its own batch has
\* been issued and has returned.
C2_BatchesDoNotOverlap ==
    \A k \in DOMAIN call_state :
      /\ call_state[k] # "unissued" =>
           \A j \in DOMAIN call_state :
             BatchOf(j) < BatchOf(k) => call_state[j] = "returned" /\ Scored(j)
      /\ Scored(k) =>
           \A j \in DOMAIN call_state :
             BatchOf(j) = BatchOf(k) => call_state[j] = "returned"

\* C2 witness: the call of the second batch is in flight after the two
\* examples of the first batch were scored
C2_Witness ==
    /\ pc = "await"
    /\ batch_size = 2
    /\ Len(dataset) = 3
    /\ call_state[3] = "pending"
    /\ DOMAIN all_responses = {0, 1}

\* C3: whatever the order in which the calls of a batch complete, the
\* response recorded for an example answers the prompt built from that
\* example, the short response is extracted from it, and the correct count
\* counts the examples whose own response matches their own target.
C3_ResponsesByPosition ==
    /\ \A t \in DOMAIN all_responses :
         /\ all_responses[t].prompt = generate_input_prompt(dataset[t + 1])
         /\ short_responses[t] = extract_answer(all_responses[t].text)
    /\ correct = Cardinality({ t \in DOMAIN all_responses :
                     evaluate_answer(extract_answer(all_responses[t].text),
                                     get_ground_truth_answer(dataset[t + 1])) })

\* C3 witness: the call of the second example completed before the call of
\* the first, and the first example has been recorded with a correct answer
C3_Witness ==
    /\ pc = "score"
    /\ done_order = <<2, 1>>
    /\ idx = 2
    /\ all_responses[0].prompt = generate_input_prompt(dataset[1])
    /\ all_responses[0].text # responses[2].text
    /\ correct = 1

\* C4: with a list of subsets the result's total_samples and
\* correct_predictions are the sums over the subsets' metrics, accuracy is
\* the quotient of the two sums (0 when no sample was evaluated) and
\* subset_metrics has an entry for every listed subset.
C4_CombinedMetrics ==
    pc = "done" /\ IsList =>
      LET sm == results.subset_metrics
          T == SumOver([s \in DOMAIN sm |-> sm[s].total_samples], DOMAIN sm)
          C == SumOver([s \in DOMAIN sm |-> sm[s].correct_predictions], DOMAIN sm)
      IN /\ DOMAIN sm = {Names[i] : i \in 1..Len(Names)}
         /\ results.total_samples = T
         /\ results.correct_predictions = C
         /\ results.accuracy.den > 0
         /\ results.accuracy.num * T = C * results.accuracy.den
         /\ T = 0 => results.accuracy.num = 0

\* C4 witness: subsets scoring 2/3 and 1/2 give accuracy 3/5
C4_Witness ==
    /\ pc = "done"
    /\ IsList
    /\ Names = <<"s1", "s2">>
    /\ results.subset_metrics["s1"].correct_predictions = 2
    /\ results.subset_metrics["s1"].total_samples = 3
    /\ results.subset_metrics["s2"].correct_predictions = 1
    /\ results.subset_metrics["s2"].total_samples = 2
    /\ results.accuracy = [num |-> 3, den |-> 5]

----------------------------------------------------------------------------
(* Properties of the per-category counters *)

\* the subject field of an example itself: subject if it holds one,
\* otherwise Subject
OwnSubject(problem) ==
    IF problem.subject \notin {ABSENT, NONE} THEN problem.subject
    ELSE problem.Subject

\* the example scored last
LastScored == dataset[Cardinality(DOMAIN all_responses)]

\* the metrics stored for subset s, with the dicts its references point to
SubsetView(s) ==
    LET m == subset_metrics[s]
    IN IF Truthy(Mapping)
       THEN [m EXCEPT !["category_correct"] = heap[m.category_correct],
                      !["category_total"] = heap[m.category_total]]
       ELSE m

\* C6: with a mapping supplied, once an example whose subject is not a key
\* of the mapping has been looked up (subject holds the key of the last
\* lookup), no exception has ended the run and the counter of "other" exists
\* in category_total and has been incremented.
C6_UnknownSubjectCountedAsOther ==
    (Truthy(Mapping) /\ all_responses # EmptyDict
        /\ subject \notin DOMAIN Mapping) =>
      /\ error = NONE
      /\ "other" \in DOMAIN heap[ct_ref]
      /\ heap[ct_ref]["other"] >= 1

\* C7: with a mapping supplied and a dataset that has a subject column, the
\* category looked up for the example scored last is the category of that
\* example's own subject (or Subject) field.
C7_CategorisedByOwnSubject ==
    (Truthy(Mapping) /\ all_responses # EmptyDict /\ layout # "none") =>
      CategoryOf(Mapping, subject) = CategoryOf(Mapping, OwnSubject(LastScored))

\* C8: once the metrics of a subset are stored under subset_metrics, no
\* later step changes any of their fields, the per-category dicts included.
C8_SubsetMetricsUnchanged ==
    [][\A s \in DOMAIN subset_metrics :
          /\ s \in DOMAIN subset_metrics'
          /\ SubsetView(s)' = SubsetView(s)]_vars

----------------------------------------------------------------------------
(* evaluator.py: load_yaml_config *)

\* A YAML document is [keys, include]: keys maps its keys other than
\* "include" to their values; include is [kind, paths] with kind "none" (no
\* include key), "str" (one path) or "list".

YamlKeys == {"x", "y"}

\* the documents a file can hold: any subset of the keys, each with the value
\* v, and one of the include entries incs
Documents(v, incs) ==
    { [keys |-> [k \in ks |-> v], include |-> inc] :
        ks \in SUBSET YamlKeys, inc \in incs }

NoInclude == [kind |-> "none", paths |-> <<>>]

RootIncludes ==
    { NoInclude,
      [kind |-> "str", paths |-> <<"a.yaml">>],
      [kind |-> "list", paths |-> <<"a.yaml">>],
      [kind |-> "list", paths |-> <<"a.yaml", "b.yaml">>],
      [kind |-> "list", paths |-> <<"b.yaml", "a.yaml">>],
      [kind |-> "list", paths |-> <<"a.yaml", "missing.yaml">>] }

\* dict.update: the keys of e override those of d
DictUpdate(d, e) ==
    [k \in DOMAIN d \cup DOMAIN e |-> IF k \in DOMAIN e THEN e[k] ELSE d[k]]

Reverse(q) == [i \in 1..Len(q) |-> q[Len(q) + 1 - i]]

\* the includes taken in the order they are listed
IncludeOrderAsListed(paths) == paths

\* include_path.reverse()
IncludeOrder(paths) == Reverse(paths)

YamlOk(config) == [error |-> NONE, config |-> config]
YamlRaise(e) == [error |-> e, config |-> <<>>]

\* load_yaml_config(yaml_path) on the files fs; MergeIncludes is its loop
\* over include_path, started with final_yaml_config = {}
RECURSIVE load_yaml_config(_, _), MergeIncludes(_, _, _)
load_yaml_config(fs, yaml_path) ==
    IF yaml_path \notin DOMAIN fs
    THEN YamlRaise("FileNotFoundError")
    ELSE LET yaml_config == fs[yaml_path]
         IN IF yaml_config.include.kind # "none"
            THEN LET merged == MergeIncludes(fs, <<>>,
                                   IncludeOrder(yaml_config.include.paths))
                 IN IF merged.error # NONE
                    THEN merged
                    ELSE YamlOk(DictUpdate(merged.config, yaml_config.keys))
            ELSE YamlOk(yaml_config.keys)

MergeIncludes(fs, final_yaml_config, include_path) ==
    IF include_path = <<>>
    THEN YamlOk(final_yaml_config)
    ELSE LET included == load_yaml_config(fs, Head(include_path))
         IN IF included.error # NONE
            THEN included
            ELSE MergeIncludes(fs, DictUpdate(final_yaml_config, included.config),
                               Tail(include_path))

InitYaml ==
    /\ yaml_pc = "start"
    /\ \E r \in Documents(0, RootIncludes),
          a \in Documents(1, {NoInclude,
                              [kind |-> "list", paths |-> <<"c.yaml">>]}),
          b \in Documents(2, {NoInclude}),
          c \in Documents(3, {NoInclude}) :
         yaml_files = ("root.yaml" :> r) @@ ("a.yaml" :> a)
                      @@ ("b.yaml" :> b) @@ ("c.yaml" :> c)
    /\ yaml_result = <<>>
    /\ EvalIdle
    /\ RetryIdle
    /\ EmbIdle
    /\ GenIdle
    /\ NodeIdle

\* the call load_yaml_config("root.yaml")
LoadYamlConfig ==
    /\ yaml_pc = "start"
    /\ yaml_result' = load_yaml_config(yaml_files, "root.yaml")
    /\ yaml_pc' = "done"
    /\ UNCHANGED <<yaml_files, evalVars, retryVars, embVars, genVars, nodeVars>>

NextYaml == LoadYamlConfig

SpecYaml == InitYaml /\ [][NextYaml]_vars

\* the root document and the configurations its includes load to
RootDoc == yaml_files["root.yaml"]
Included(i) == load_yaml_config(yaml_files, RootDoc.include.paths[i]).config

\* the listed positions of the includes whose configuration defines key k
Defining(k) ==
    { i \in 1..Len(RootDoc.include.paths) : k \in DOMAIN Included(i) }

SetMax(S) == CHOOSE m \in S : \A n \in S : n <= m
SetMin(S) == CHOOSE m \in S : \A n \in S : m <= n

\* C5 as claimed: a key the root defines has the root's value; any other
\* key has the value of the last listed include that defines it.
C5_LaterIncludeOverrides ==
    (yaml_pc = "done" /\ yaml_result.error = NONE) =>
      \A k \in YamlKeys :
        IF k \in DOMAIN RootDoc.keys
        THEN yaml_result.config[k] = RootDoc.keys[k]
        ELSE Defining(k) # {} =>
               yaml_result.config[k] = Included(SetMax(Defining(k)))[k]

\* C5 as amended: a key the root defines has the root's value; any other key
\* has the value of the FIRST listed include that defines it (the includes
\* are merged last listed first, so the earliest listed one is applied last
\* and has the highest priority among the includes); the result has exactly
\* the keys the root or an include defines.
C5_EarlierIncludeOverrides ==
    (yaml_pc = "done" /\ yaml_result.error = NONE) =>
      /\ DOMAIN yaml_result.config =
           DOMAIN RootDoc.keys \cup { k \in YamlKeys : Defining(k) # {} }
      /\ \A k \in DOMAIN yaml_result.config :
           IF k \in DOMAIN RootDoc.keys
           THEN yaml_result.config[k] = RootDoc.keys[k]
           ELSE yaml_result.config[k] = Included(SetMin(Defining(k)))[k]

\* C5 witness: root includes [a.yaml, b.yaml], a defines x: 1, b defines
\* x: 2, the root defines no x, and the merged x is 1
C5_Witness ==
    /\ yaml_pc = "done"
    /\ RootDoc.include.paths = <<"a.yaml", "b.yaml">>
    /\ "x" \notin DOMAIN RootDoc.keys
    /\ "x" \in DOMAIN yaml_files["a.yaml"].keys
    /\ "x" \in DOMAIN yaml_files["b.yaml"].keys
    /\ yaml_result.error = NONE
    /\ yaml_result.config["x"] = 1

----------------------------------------------------------------------------
(* llm.py: async_retry, completion_with_backoff, get_embedding *)

\* stop_after_attempt(20) of completion_with_backoff
CompletionMaxAttempts == 20
\* stop_after_attempt(30) of get_embedding
EmbeddingMaxAttempts == 30

RetryFns == {"completion_with_backoff", "get_embedding"}

MaxAttempts(fn) ==
    IF fn = "completion_with_backoff" THEN CompletionMaxAttempts
    ELSE EmbeddingMaxAttempts

\* a stop condition that lets one more attempt through
ShouldStopLate(n, max) == n > max

\* stop_after_attempt(max) after the n-th attempt
ShouldStop(n, max) == n >= max

InitRetry ==
    /\ retry_pc = "start"
    /\ retry_fn \in RetryFns
    /\ attempt_number = 0
    /\ calls = 0
    /\ logged = 0
    /\ retry_result = <<>>
    /\ EvalIdle
    /\ YamlIdle
    /\ EmbIdle
    /\ GenIdle
    /\ NodeIdle

\* wrapped_f is called: the retry state begins with attempt 1
BeginCall ==
    /\ retry_pc = "start"
    /\ attempt_number' = 1
    /\ retry_pc' = "attempt"
    /\ UNCHANGED <<retry_fn, calls, logged, retry_result>>
    /\ UNCHANGED <<evalVars, yamlVars, embVars, genVars, nodeVars>>

\* the wrapped function is invoked and returns: wrapped_f returns its value
AttemptSucceeds ==
    /\ retry_pc = "attempt"
    /\ calls' = calls + 1
    /\ retry_result' = [kind |-> "value", attempt |-> calls + 1]
    /\ retry_pc' = "returned"
    /\ UNCHANGED <<retry_fn, attempt_number, logged>>
    /\ UNCHANGED <<evalVars, yamlVars, embVars, genVars, nodeVars>>

\* the wrapped function is invoked, the API call fails: the function logs
\* the failure and raises it again, the attempt records it
AttemptFails ==
    /\ retry_pc = "attempt"
    /\ calls' = calls + 1
    /\ logged' = logged + 1
    /\ retry_pc' = "failed"
    /\ UNCHANGED <<retry_fn, attempt_number, retry_result>>
    /\ UNCHANGED <<evalVars, yamlVars, embVars, genVars, nodeVars>>

\* the stop condition holds after a failed attempt: RetryError is raised
\* with the last attempt in it
GiveUp ==
    /\ retry_pc = "failed"
    /\ ShouldStop(attempt_number, MaxAttempts(retry_fn))
    /\ retry_result' = [kind |-> "RetryError", attempt |-> attempt_number]
    /\ retry_pc' = "raised"
    /\ UNCHANGED <<retry_fn, attempt_number, calls, logged>>
    /\ UNCHANGED <<evalVars, yamlVars, embVars, genVars, nodeVars>>

\* the stop condition does not hold: the next attempt is prepared and the
\* coroutine sleeps for the backoff
Backoff ==
    /\ retry_pc = "failed"
    /\ ~ShouldStop(attempt_number, MaxAttempts(retry_fn))
    /\ attempt_number' = attempt_number + 1
    /\ retry_pc' = "sleeping"
    /\ UNCHANGED <<retry_fn, calls, logged, retry_result>>
    /\ UNCHANGED <<evalVars, yamlVars, embVars, genVars, nodeVars>>

\* the backoff ends
WakeUp ==
    /\ retry_pc = "sleeping"
    /\ retry_pc' = "attempt"
    /\ UNCHANGED <<retry_fn, attempt_number, calls, logged, retry_result>>
    /\ UNCHANGED <<evalVars, yamlVars, embVars, genVars, nodeVars>>

NextRetry ==
    \/ BeginCall
    \/ AttemptSucceeds
    \/ AttemptFails
    \/ GiveUp
    \/ Backoff
    \/ WakeUp

SpecRetry == InitRetry /\ [][NextRetry]_vars

----------------------------------------------------------------------------
(* llm.py: compute_embeddings *)

\* most documents in one call
MaxDocs == 3
\* largest embedding_dimensions of a call
MaxDim == 2

\* a document is a string (is_str) or an object a text_extractor reads the
\* text from
Docs == { [is_str |-> TRUE, text |-> "t1"],
          [is_str |-> TRUE, text |-> "t2"],
          [is_str |-> FALSE, text |-> "t1"] }

\* how many calls of the embeddings API in a row can fail for one text
FailureCounts == {0, 1, EmbeddingMaxAttempts}

TextCode(text) == IF text = "t1" THEN 1 ELSE 2

\* the vector the embeddings API answers with for a text
ApiEmbedding(text, dimensions) == [j \in 1..dimensions |-> TextCode(text)]

\* get_embedding raises when the API fails on every attempt of its budget
GetEmbeddingRaises(failures) == failures >= EmbeddingMaxAttempts

\* a failed embedding left out of the list
OnEmbeddingFailureSkip(es, dimensions) == es

\* embeddings.append([0] * embedding_dimensions)
OnEmbeddingFailure(es, dimensions) == Append(es, [j \in 1..dimensions |-> 0])

\* np.array of a list of rows of one length
NpArray(rows) == rows

\* text_extractor(doc), or the document itself when it is a string
TextOf(doc) == doc.text

InitEmbed ==
    /\ emb_pc = "start"
    /\ docs \in UNION { [1..n -> Docs] : n \in 0..MaxDocs }
    /\ text_extractor \in BOOLEAN
    /\ embedding_dimensions \in 1..MaxDim
    /\ emb_i = 0
    /\ api_failures = <<>>
    /\ texts = <<>>
    /\ embeddings = <<>>
    /\ emb_result = <<>>
    /\ EvalIdle
    /\ YamlIdle
    /\ RetryIdle
    /\ GenIdle
    /\ NodeIdle

\* compute_embeddings up to its loop: the texts, or the empty array
ComputeStart ==
    /\ emb_pc = "start"
    /\ IF text_extractor \/ \A i \in DOMAIN docs : docs[i].is_str
       THEN /\ texts' = [i \in DOMAIN docs |-> TextOf(docs[i])]
            /\ emb_pc' = "loop"
            /\ emb_result' = emb_result
       ELSE /\ emb_result' = NpArray(<<>>)
            /\ emb_pc' = "done"
            /\ texts' = texts
    /\ embeddings' = <<>>
    /\ emb_i' = 0
    /\ UNCHANGED <<docs, text_extractor, embedding_dimensions, api_failures>>
    /\ UNCHANGED <<evalVars, yamlVars, retryVars, genVars, nodeVars>>

\* one iteration of the loop over texts
EmbedNext ==
    /\ emb_pc = "loop"
    /\ emb_i < Len(texts)
    /\ \E failures \in FailureCounts :
         /\ api_failures' = Append(api_failures, failures)
         /\ embeddings' =
              IF GetEmbeddingRaises(failures)
              THEN OnEmbeddingFailure(embeddings, embedding_dimensions)
              ELSE Append(embeddings,
                          ApiEmbedding(texts[emb_i + 1], embedding_dimensions))
    /\ emb_i' = emb_i + 1
    /\ UNCHANGED <<emb_pc, docs, text_extractor, embedding_dimensions, texts,
                   emb_result>>
    /\ UNCHANGED <<evalVars, yamlVars, retryVars, genVars, nodeVars>>

\* return np.array(embeddings)
ComputeReturn ==
    /\ emb_pc = "loop"
    /\ emb_i = Len(texts)
    /\ emb_result' = NpArray(embeddings)
    /\ emb_pc' = "done"
    /\ UNCHANGED <<docs, text_extractor, embedding_dimensions, emb_i,
                   api_failures, texts, embeddings>>
    /\ UNCHANGED <<evalVars, yamlVars, retryVars, genVars, nodeVars>>

NextEmbed ==
    \/ ComputeStart
    \/ EmbedNext
    \/ ComputeReturn

SpecEmbed == InitEmbed /\ [][NextEmbed]_vars

\* C9: when all documents are strings or an extractor is given,
\* compute_embeddings returns one row per document, in input order: the
\* zero vector of embedding_dimensions entries for a document whose
\* embedding failed, the embedding of the document's text for every other,
\* whichever documents fail.
C9_OneRowPerDocument ==
    (emb_pc = "done" /\ (text_extractor \/ \A i \in DOMAIN docs : docs[i].is_str)) =>
      /\ Len(emb_result) = Len(docs)
      /\ Len(api_failures) = Len(docs)
      /\ \A i \in 1..Len(docs) :
           /\ Len(emb_result[i]) = embedding_dimensions
           /\ \A j \in 1..embedding_dimensions :
                emb_result[i][j] =
                    IF api_failures[i] >= EmbeddingMaxAttempts
                    THEN 0
                    ELSE TextCode(docs[i].text)

\* C9 witness: of three documents the second failed; its row is the zero
\* vector between the embeddings of the first and the third
C9_Witness ==
    /\ emb_pc = "done"
    /\ Len(docs) = 3
    /\ embedding_dimensions = 2
    /\ api_failures = <<0, EmbeddingMaxAttempts, 1>>
    /\ docs[1].text = "t2"
    /\ docs[3].text = "t1"
    /\ emb_result = << <<2, 2>>, <<0, 0>>, <<1, 1>> >>

----------------------------------------------------------------------------
(* evaluator.py: the accuracy of a run *)

\* C13: the accuracy in the metrics evaluate_on_dataset returns is
\* correct/total, and on a dataset of zero examples (total = 0) the call
\* returns metrics whose accuracy is 0.
C13_AccuracyOrZero ==
    /\ pc = "returned" =>
          metrics.accuracy = IF total = 0 THEN Zero ELSE Frac(correct, total)
    /\ (pc = "raised" /\ total = 0) => error # "ZeroDivisionError"

----------------------------------------------------------------------------
(* evaluator.py: the per-category counters of a run *)

\* runs with a mapping on datasets that have a subject column
InitCounters == InitWith(Mappings \ {EmptyDict}, {"lower"})

SpecCounters == InitCounters /\ [][NextEval]_vars

\* the counter dicts of the run: the shared ones in list mode, the ones
\* evaluate_on_dataset made in the single-dataset branch
RunCategoryCorrect == heap[IF IsList THEN "outer_cc" ELSE "inner_cc"]
RunCategoryTotal == heap[IF IsList THEN "outer_ct" ELSE "inner_ct"]

\* the categories that have counted an example
CountedCategories == {c \in DOMAIN RunCategoryTotal : RunCategoryTotal[c] > 0}

\* C15: in a run of evaluate_model_on_dataset with a subject_category_mapping
\* (single dataset or list of subsets), after every scored example each
\* category's correct counter is at most its total counter, and when the run
\* returns the per-category totals add up to total_samples and the
\* per-category correct counters add up to correct_predictions.
C15_CategoryCountersAddUp ==
    Truthy(Mapping) =>
        /\ \A c \in DOMAIN RunCategoryCorrect :
              /\ c \in DOMAIN RunCategoryTotal
              /\ RunCategoryCorrect[c] <= RunCategoryTotal[c]
        /\ pc = "done" =>
              /\ SumOver(RunCategoryTotal, DOMAIN RunCategoryTotal)
                    = results.total_samples
              /\ SumOver(RunCategoryCorrect, DOMAIN RunCategoryCorrect)
                    = results.correct_predictions

\* a run over a list of subsets has returned with examples counted in two
\* categories, one of them holding a wrong and a right answer
C15_Witness ==
    /\ pc = "done"
    /\ Truthy(Mapping)
    /\ IsList
    /\ Len(Names) >= 2
    /\ Cardinality(CountedCategories) >= 2
    /\ \E c \in CountedCategories :
          0 < RunCategoryCorrect[c] /\ RunCategoryCorrect[c] < RunCategoryTotal[c]

----------------------------------------------------------------------------
(* llm.py: generate_texts_in_parallel *)

\* most message-lists in one call
MaxMessages == 3
\* largest concurrency limit
MaxLimit == 2

\* the message-lists a caller passes
MessageLists == {<<"hi">>, <<"yo">>}

\* the limits a caller passes: a positive number of calls that may run
Limits == 1..MaxLimit

\* an executor job that has not run
NoJobResult == <<>>

\* the keyword arguments fetch binds with partial
FetchKwargs(messages) == [messages |-> messages]

\* calling completion_with_backoff, the coroutine function wrapped_f that
\* async_retry returned: the call makes a coroutine object and runs none of
\* its body
CallCoroutineFunction(kwargs) ==
    [kind |-> "coroutine", function |-> "completion_with_backoff",
     kwargs |-> kwargs]

\* what the executor thread computes for a job: it calls the partial
RunInExecutor(messages) == CallCoroutineFunction(FetchKwargs(messages))

\* asyncio.Semaphore.locked() negated, as if the gate were never closed
SemaphoreFreeAlways(value) == value >= 0

\* asyncio.Semaphore: acquire proceeds when the value is positive
SemaphoreFree(value) == value > 0

\* asyncio.gather: the results in the order of its arguments
GatherResults(rs) == [i \in 1..Len(rs) |-> rs[i]]

InitGen ==
    /\ gen_pc = "start"
    /\ \E n \in 0..MaxMessages : list_of_messages \in [1..n -> MessageLists]
    /\ semaphore_value \in Limits
    /\ semaphore = 0
    /\ fetch_pc = <<>>
    /\ job_result = <<>>
    /\ fetch_result = <<>>
    /\ api_requests = {}
    /\ gen_result = <<>>
    /\ EvalIdle
    /\ YamlIdle
    /\ RetryIdle
    /\ EmbIdle
    /\ NodeIdle

\* lines 172-189 up to the await: the semaphore is made, one fetch coroutine
\* per message-list is made and asyncio.gather schedules them
GenStart ==
    /\ gen_pc = "start"
    /\ gen_pc' = "gathering"
    /\ semaphore' = semaphore_value
    /\ fetch_pc' = [i \in 1..Len(list_of_messages) |-> "created"]
    /\ job_result' = [i \in 1..Len(list_of_messages) |-> NoJobResult]
    /\ fetch_result' = [i \in 1..Len(list_of_messages) |-> NoJobResult]
    /\ UNCHANGED <<list_of_messages, semaphore_value, api_requests, gen_result>>
    /\ UNCHANGED <<evalVars, yamlVars, retryVars, embVars, nodeVars>>

\* lines 175-184: fetch i enters the semaphore and hands its job to the
\* executor; a fetch that finds the semaphore locked waits here
FetchAcquire(i) ==
    /\ gen_pc = "gathering"
    /\ fetch_pc[i] = "created"
    /\ SemaphoreFree(semaphore)
    /\ semaphore' = semaphore - 1
    /\ fetch_pc' = [fetch_pc EXCEPT ![i] = "in_executor"]
    /\ UNCHANGED <<gen_pc, list_of_messages, semaphore_value, job_result,
                   fetch_result, api_requests, gen_result>>
    /\ UNCHANGED <<evalVars, yamlVars, retryVars, embVars, nodeVars>>

\* the executor thread runs the job of fetch i: it calls the partial, which
\* returns a coroutine object; nothing awaits that object, so
\* client.chat.completions.create (line 128) is not reached
ExecutorRunsJob(i) ==
    /\ gen_pc = "gathering"
    /\ fetch_pc[i] = "in_executor"
    /\ job_result[i] = NoJobResult
    /\ job_result' = [job_result EXCEPT ![i] = RunInExecutor(list_of_messages[i])]
    /\ UNCHANGED <<gen_pc, list_of_messages, semaphore_value, semaphore,
                   fetch_pc, fetch_result, api_requests, gen_result>>
    /\ UNCHANGED <<evalVars, yamlVars, retryVars, embVars, nodeVars>>

\* lines 175-176: the future of the job is done; fetch i leaves the
\* semaphore and returns the job's result
FetchReturns(i) ==
    /\ gen_pc = "gathering"
    /\ fetch_pc[i] = "in_executor"
    /\ job_result[i] # NoJobResult
    /\ semaphore' = semaphore + 1
    /\ fetch_result' = [fetch_result EXCEPT ![i] = job_result[i]]
    /\ fetch_pc' = [fetch_pc EXCEPT ![i] = "returned"]
    /\ UNCHANGED <<gen_pc, list_of_messages, semaphore_value, job_result,
                   api_requests, gen_result>>
    /\ UNCHANGED <<evalVars, yamlVars, retryVars, embVars, nodeVars>>

\* line 189: every fetch has returned and gather's result is returned
GenReturn ==
    /\ gen_pc = "gathering"
    /\ \A i \in DOMAIN fetch_pc : fetch_pc[i] = "returned"
    /\ gen_result' = GatherResults(fetch_result)
    /\ gen_pc' = "done"
    /\ UNCHANGED <<list_of_messages, semaphore_value, semaphore, fetch_pc,
                   job_result, fetch_result, api_requests>>
    /\ UNCHANGED <<evalVars, yamlVars, retryVars, embVars, nodeVars>>

NextGen ==
    \/ GenStart
    \/ \E i \in DOMAIN fetch_pc : FetchAcquire(i)
    \/ \E i \in DOMAIN fetch_pc : ExecutorRunsJob(i)
    \/ \E i \in DOMAIN fetch_pc : FetchReturns(i)
    \/ GenReturn

SpecGen == InitGen /\ [][NextGen]_vars

\* the event loop runs every task that is ready and the executor's threads
\* run every job they were handed
SpecGenFair ==
    /\ InitGen
    /\ [][NextGen]_vars
    /\ WF_vars(GenStart)
    /\ \A i \in 1..MaxMessages : WF_vars(i \in DOMAIN fetch_pc /\ FetchAcquire(i))
    /\ \A i \in 1..MaxMessages : WF_vars(i \in DOMAIN fetch_pc /\ ExecutorRunsJob(i))
    /\ \A i \in 1..MaxMessages : WF_vars(i \in DOMAIN fetch_pc /\ FetchReturns(i))
    /\ WF_vars(GenReturn)

\* the fetches that hold the semaphore: their call is in flight
InFlight == {i \in DOMAIN fetch_pc : fetch_pc[i] = "in_executor"}

\* C11: while generate_texts_in_parallel runs with limit L, at most L calls
\* are in flight at any moment, whatever the number of message-lists and the
\* order in which the calls complete, and every message-list that waits at
\* the gate is eventually let in.
C11_GateBoundsCalls ==
    /\ [](Cardinality(InFlight) <= semaphore_value)
    /\ \A i \in 1..MaxMessages :
         (i \in DOMAIN fetch_pc /\ fetch_pc[i] = "created")
            ~> (i \in DOMAIN fetch_pc /\ fetch_pc[i] = "in_executor")

\* the gate is full, a message-list waits at it, and an earlier call has
\* completed after a later one was let in
C11_Witness ==
    /\ gen_pc = "gathering"
    /\ Cardinality(InFlight) = semaphore_value
    /\ \E i \in DOMAIN fetch_pc : fetch_pc[i] = "created"
    /\ \E i, j \in DOMAIN fetch_pc :
         i < j /\ fetch_pc[i] = "in_executor" /\ fetch_pc[j] = "returned"

\* the text the chat completion API answers a request with
CompletionText(messages) == [kind |-> "text", messages |-> messages]

\* C12: generate_texts_in_parallel issues exactly one chat completion per
\* message-list and returns a list of the same length whose i-th element is
\* the completion text for the i-th message-list, in whatever order the
\* calls complete.
C12_OneCompletionPerMessageList ==
    gen_pc = "done" =>
        /\ Len(gen_result) = Len(list_of_messages)
        /\ \A i \in DOMAIN list_of_messages :
             /\ gen_result[i] = CompletionText(list_of_messages[i])
             /\ Cardinality({r \in api_requests : r.index = i}) = 1

----------------------------------------------------------------------------
(* node_management.py: get_node_types *)

\* most node types in one group
MaxNodeTypes == 2

\* the names of the groups of the registry
GroupNames == {"g1", "g2"}

\* the node types of the registry: each has a name and a node class; a node
\* class has a config model and may lack an input model, an output model or
\* both
NodeTypes ==
    { [node_type_name |-> n[1],
       node_class |-> [input_model |-> n[2], output_model |-> n[3],
                       config_model |-> "ConfigModel"]] :
      n \in { <<"Both", "InputModel", "OutputModel">>,
              <<"NoInput", ABSENT, "OutputModel">>,
              <<"NoOutput", "InputModel", ABSENT>>,
              <<"Neither", ABSENT, ABSENT>> } }

\* the lists of node types a group can hold
NodeTypeLists == UNION { [1..n -> NodeTypes] : n \in 0..MaxNodeTypes }

\* what NodeFactory.get_all_node_types() can return: a dict from group name
\* to a list of node types, as the list of its items in iteration order
NodeGroups ==
    UNION { { [i \in 1..n |-> [group_name |-> names[i], node_types |-> types[i]]] :
              names \in { f \in [1..n -> GroupNames] :
                            \A i, j \in 1..n : i # j => f[i] # f[j] },
              types \in [1..n -> NodeTypeLists] } :
            n \in 0..Cardinality(GroupNames) }

\* model.model_json_schema()
ModelJsonSchema(model) == [title |-> model, type |-> "object"]

\* whether node_class.<attr>.model_json_schema() raises AttributeError
RaisesAttributeError(model) == model = ABSENT

\* lines 24-27 without the except clause
InputSchemaUnguarded(node_class) == ModelJsonSchema(node_class.input_model)

\* lines 24-27
InputSchema(node_class) ==
    IF RaisesAttributeError(node_class.input_model)
    THEN EmptyDict
    ELSE ModelJsonSchema(node_class.input_model)

\* lines 28-31
OutputSchema(node_class) ==
    IF RaisesAttributeError(node_class.output_model)
    THEN EmptyDict
    ELSE ModelJsonSchema(node_class.output_model)

\* lines 32-37
NodeSchema(node_type) ==
    [name |-> node_type.node_type_name,
     input |-> InputSchema(node_type.node_class),
     output |-> OutputSchema(node_type.node_class),
     config |-> ModelJsonSchema(node_type.node_class.config_model)]

\* the group the outer loop is in
CurrentGroup == node_groups[group_i + 1]

InitNodes ==
    /\ node_pc = "start"
    /\ node_groups \in NodeGroups
    /\ group_i = 0
    /\ type_i = 0
    /\ node_schemas = <<>>
    /\ node_response = <<>>
    /\ EvalIdle
    /\ YamlIdle
    /\ RetryIdle
    /\ EmbIdle
    /\ GenIdle

\* lines 17-19
NodeStart ==
    /\ node_pc = "start"
    /\ node_pc' = "groups"
    /\ node_response' = EmptyDict
    /\ UNCHANGED <<node_groups, group_i, type_i, node_schemas>>
    /\ UNCHANGED <<evalVars, yamlVars, retryVars, embVars, genVars>>

\* lines 20-21: the outer loop takes the next group
EnterGroup ==
    /\ node_pc = "groups"
    /\ group_i < Len(node_groups)
    /\ node_schemas' = <<>>
    /\ type_i' = 0
    /\ node_pc' = "types"
    /\ UNCHANGED <<node_groups, group_i, node_response>>
    /\ UNCHANGED <<evalVars, yamlVars, retryVars, embVars, genVars>>

\* lines 22-38: the inner loop takes the next node type of the group
VisitNodeType ==
    /\ node_pc = "types"
    /\ type_i < Len(CurrentGroup.node_types)
    /\ node_schemas' =
          Append(node_schemas, NodeSchema(CurrentGroup.node_types[type_i + 1]))
    /\ type_i' = type_i + 1
    /\ UNCHANGED <<node_pc, node_groups, group_i, node_response>>
    /\ UNCHANGED <<evalVars, yamlVars, retryVars, embVars, genVars>>

\* line 39: response[group_name] = node_schemas
CloseGroup ==
    /\ node_pc = "types"
    /\ type_i = Len(CurrentGroup.node_types)
    /\ node_response' =
          (CurrentGroup.group_name :> node_schemas) @@ node_response
    /\ group_i' = group_i + 1
    /\ node_pc' = "groups"
    /\ UNCHANGED <<node_groups, type_i, node_schemas>>
    /\ UNCHANGED <<evalVars, yamlVars, retryVars, embVars, genVars>>

\* line 41
NodeReturn ==
    /\ node_pc = "groups"
    /\ group_i = Len(node_groups)
    /\ node_pc' = "done"
    /\ UNCHANGED <<node_groups, group_i, type_i, node_schemas, node_response>>
    /\ UNCHANGED <<evalVars, yamlVars, retryVars, embVars, genVars>>

NextNodes ==
    \/ NodeStart
    \/ EnterGroup
    \/ VisitNodeType
    \/ CloseGroup
    \/ NodeReturn

SpecNodes == InitNodes /\ [][NextNodes]_vars

\* the schema the response must carry for a model that may be missing
SchemaOrEmpty(model) ==
    IF model = ABSENT THEN EmptyDict ELSE ModelJsonSchema(model)

\* C14: for every registry content, the response of get_node_types has one
\* top-level key per group and under it exactly one record per node type of
\* the group, in the registry's order; each record carries name, input,
\* output and config; a node class without an input model gets the empty
\* object for input, one without an output model the empty object for
\* output, and the request returns.
C14_OneRecordPerNodeType ==
    node_pc = "done" =>
        /\ DOMAIN node_response =
              {node_groups[g].group_name : g \in DOMAIN node_groups}
        /\ \A g \in DOMAIN node_groups :
             LET types == node_groups[g].node_types
                 records == node_response[node_groups[g].group_name]
             IN /\ Len(records) = Len(types)
                /\ \A k \in DOMAIN types :
                     /\ DOMAIN records[k] = {"name", "input", "output", "config"}
                     /\ records[k].name = types[k].node_type_name
                     /\ records[k].input =
                           SchemaOrEmpty(types[k].node_class.input_model)
                     /\ records[k].output =
                           SchemaOrEmpty(types[k].node_class.output_model)
                     /\ records[k].config =
                           ModelJsonSchema(types[k].node_class.config_model)

\* the request returned for a registry of two groups, one of them holding a
\* node class without an input model after one that has both models, the
\* other a node class without an output model
C14_Witness ==
    /\ node_pc = "done"
    /\ Len(node_groups) = 2
    /\ \E g \in DOMAIN node_groups :
         /\ Len(node_groups[g].node_types) = 2
         /\ node_groups[g].node_types[1].node_class.input_model # ABSENT
         /\ node_groups[g].node_types[2].node_class.input_model = ABSENT
         /\ node_response[node_groups[g].group_name][2].input = EmptyDict
    /\ \E g \in DOMAIN node_groups :
         \E k \in DOMAIN node_groups[g].node_types :
            /\ node_groups[g].node_types[k].node_class.output_model = ABSENT
            /\ node_response[node_groups[g].group_name][k].output = EmptyDict
====
